---- MODULE Spec2Model ----
(***************************************************************************)
(* RhizoCam backend (src/backend/main.py): the /search, /generate-query    *)
(* and /analyze request handlers, one request at a time (the handlers are  *)
(* synchronous and share no mutable state).  Every outbound HTTP call is a *)
(* step whose outcome is chosen by the environment.                        *)
(*                                                                         *)
(* Python values: a str is a TLA+ string; an Optional value is <<>> (None) *)
(* or <<v>>; an XML node is <<>> (find() returned None) or <<text>> with   *)
(* text itself an Optional str (node.text).  The records of an efetch      *)
(* answer are read one at a time, as the loop over root reaches them.      *)
(***************************************************************************)
EXTENDS Integers, Sequences, FiniteSets, TLC

VARIABLES
  pc,               \* where the handler is
  request,          \* the request being handled
  all_pmids,        \* /search: the set search_pmids returned
  pmid_list,        \* /search: list(all_pmids)[:limit]
  i,                \* /search: offset of the current chunk in pmid_list
  article_xml,      \* /search: the PubmedArticle element the inner loop is at
  remaining,        \* /search: how many elements of root follow article_xml
  article_details,  \* /search: the Article waiting for its full text
  articles_data,    \* /search: the result list
  calls,            \* the outbound HTTP calls issued so far, in order
  outcomes,         \* /search: what the parser made of the records of the chunk so far
  chunk_failed,     \* /search: some chunk gave no data or no parsable XML
  article_texts,    \* /analyze: the rendered article blocks
  full_prompt,      \* /generate-query, /analyze: the prompt sent upstream
  api_result,       \* /generate-query, /analyze: what the generative API call gave
  response          \* the HTTP response of the handler, once it has one

search_vars == <<all_pmids, pmid_list, i, article_xml, remaining, article_details,
                 articles_data, outcomes, chunk_failed>>

gen_vars == <<article_texts, full_prompt, api_result>>

vars == <<pc, request, calls, response, search_vars, gen_vars>>

\* ---------------------------------------------------------------- bounds
MaxIds == 3
MaxLimit == 3
MaxChunkSize == 2
MaxRecs == 2
MaxArticles == 2
MaxAnalyzed == 2

\* ------------------------------------------------------- Python helpers
None == <<>>
Some(v) == <<v>>

Min(a, b) == IF a < b THEN a ELSE b
Max(a, b) == IF a > b THEN a ELSE b

Range(s) == {s[k] : k \in 1..Len(s)}

RECURSIVE SeqsUpTo(_, _)
SeqsUpTo(S, n) ==
  IF n = 0 THEN {<<>>}
  ELSE LET shorter == SeqsUpTo(S, n - 1)
       IN shorter \cup {Append(s, x) : s \in {t \in shorter : Len(t) = n - 1}, x \in S}

Reverse(s) == [k \in 1..Len(s) |-> s[Len(s) + 1 - k]]

\* seq[:k] of Python: a negative k counts from the end
SliceTo(s, k) ==
  IF k >= 0 THEN SubSeq(s, 1, Min(k, Len(s)))
  ELSE SubSeq(s, 1, Max(Len(s) + k, 0))

\* seq[a:b] of Python for 0 <= a <= b
Slice(s, a, b) == SubSeq(s, Min(a, Len(s)) + 1, Min(b, Len(s)))

IsSpace(c) == c \in {" ", "\n", "\t", "\r"}

RECURSIVE LStrip(_)
LStrip(s) == IF s = "" THEN "" ELSE IF IsSpace(Head(s)) THEN LStrip(Tail(s)) ELSE s

RECURSIVE RStrip(_)
RStrip(s) ==
  IF s = "" THEN ""
  ELSE IF IsSpace(SubSeq(s, Len(s), Len(s))) THEN RStrip(SubSeq(s, 1, Len(s) - 1)) ELSE s

\* str.strip()
Strip(s) == RStrip(LStrip(s))

\* re.sub(r'\s+', ' ', s)
RECURSIVE CollapseSpace(_)
CollapseSpace(s) ==
  IF s = "" THEN ""
  ELSE IF IsSpace(Head(s)) THEN " " \o CollapseSpace(LStrip(s))
  ELSE Head(s) \o CollapseSpace(Tail(s))

\* str.splitlines()[0] of a non-empty str: the text before the first line break
RECURSIVE FirstLine(_)
FirstLine(s) ==
  IF s = "" \/ Head(s) \in {"\n", "\r"} THEN "" ELSE Head(s) \o FirstLine(Tail(s))

\* ' '.join(parts)
RECURSIVE JoinSpace(_)
JoinSpace(parts) ==
  IF parts = <<>> THEN ""
  ELSE IF Len(parts) = 1 THEN parts[1]
  ELSE parts[1] \o " " \o JoinSpace(Tail(parts))

StartsWith(s, p) == Len(s) >= Len(p) /\ SubSeq(s, 1, Len(p)) = p

\* ------------------------------------------------- XML Record Parser
\* A PubmedArticle element, by the nodes parse_article_xml looks up.
\*   PMID, ArticleDateYear, ArticleIdPmc : a node
\*   PubDate : <<>> (no PubDate element) or <<[Year |-> node]>>
NoNode == <<>>
Node(text) == <<text>>

\* get_text raises AttributeError when called on None (element.find)
get_text_raises(element) == element = None

\* get_text(element, path) on an element that is not None
get_text(element, path) ==
  LET node == element[1][path]
  IN IF node # NoNode /\ node[1] # None
     THEN CollapseSpace(Strip(node[1][1]))
     ELSE ""

NoRecord == [tag |-> "None"]
Raised(e) == [tag |-> "raise", exc |-> e]
Returned(v) == [tag |-> "return", v |-> v]
Parsed(a) == [tag |-> "Article", art |-> a]

\* the body of the try block of parse_article_xml
parse_article_body(el) ==
  LET pmid == get_text(Some(el), "PMID")
  IN IF pmid = "" THEN NoRecord
     ELSE IF get_text_raises(el.PubDate) THEN Raised("AttributeError")
     ELSE LET pub == get_text(el.PubDate, "Year")
              art == get_text(Some(el), "ArticleDateYear")
              year == IF pub # "" THEN pub ELSE IF art # "" THEN art ELSE "NO_YEAR"
              pmcid_node == el.ArticleIdPmc
              pmcid == IF pmcid_node # NoNode THEN pmcid_node[1] ELSE Some("")
          IN Parsed([pmid |-> pmid, year |-> year, pmcid |-> pmcid,
                     full_text |-> "NOT_ATTEMPTED"])

\* a parser whose exceptions are not caught
parse_article_xml_uncaught(el) == parse_article_body(el)

\* try: ... except Exception: return None
parse_article_xml(el) ==
  LET r == parse_article_body(el)
  IN IF r.tag = "raise" THEN NoRecord ELSE r

\* truth value of an Optional[str]
Truthy(opt) == opt # None /\ opt[1] # ""

\* ------------------------------------------------- Full-Text Scraper
\* outcome of the GET of the article page
ScrapeOutcomes ==
  { [kind |-> "ok", container |-> FALSE, paragraphs |-> <<>>],
    [kind |-> "ok", container |-> TRUE, paragraphs |-> <<>>],
    [kind |-> "ok", container |-> TRUE, paragraphs |-> <<" ">>],
    [kind |-> "ok", container |-> TRUE, paragraphs |-> <<"Intro.", " Body text ">>],
    [kind |-> "http_error", msg |-> "404 Client Error"],
    [kind |-> "exception", msg |-> "timed out"],
    [kind |-> "exception", msg |-> "timed out\nCaused by ReadTimeoutError"],
    [kind |-> "exception", msg |-> ""] }

StripAll(ps) == [k \in 1..Len(ps) |-> Strip(ps[k])]

\* scrape_full_text on the outcome of its GET: the returned str, or the
\* exception that leaves the function
scrape_full_text(o) ==
  IF o.kind = "ok"
  THEN IF ~o.container THEN Returned("FULL_TEXT_CONTAINER_NOT_FOUND")
       ELSE LET full_text == JoinSpace(StripAll(o.paragraphs))
            IN Returned(IF full_text # "" THEN full_text ELSE "FULL_TEXT_EMPTY")
  ELSE \* requests.exceptions.RequestException (raise_for_status included)
       IF o.msg = "" THEN Raised("IndexError")   \* "".splitlines() == []
       ELSE Returned("SCRAPING_FAILED: " \o FirstLine(o.msg))

\* what scrape_full_text can hand back to (or raise into) search_endpoint
ScrapeResults == {scrape_full_text(o) : o \in ScrapeOutcomes}

\* ------------------------------------------------- /search inputs
\* the idlist of an esearch answer: n distinct ids, the first possibly repeated
FirstIds(n) == [k \in 1..n |-> ToString(k)]
IdLists ==
  {FirstIds(n) : n \in 0..MaxIds} \cup {Append(FirstIds(n), "1") : n \in 1..MaxIds}

SearchOutcomes ==
  {[kind |-> "error"]} \cup {[kind |-> "ok", idlist |-> l] : l \in IdLists}

\* search_pmids: set(idlist), or set() on a RequestException
search_pmids(o) == IF o.kind = "ok" THEN Range(o.idlist) ELSE {}

\* list(all_pmids): the ids once each, in an order the program does not
\* choose; the orders taken here are ascending and descending
Orderings(S) ==
  LET up == SelectSeq(FirstIds(MaxIds), LAMBDA p : p \in S)
  IN {up, Reverse(up)}

SearchRequests ==
  [endpoint : {"search"}, limit : (0 - 1)..MaxLimit, chunk_size : 1..MaxChunkSize,
   fetch_full_text : BOOLEAN]

PubYear(t) == Some([Year |-> Node(Some(t))])
PubNoYear == Some([Year |-> NoNode])

RecordKinds ==
  { \* no PMID
    [PMID |-> NoNode, PubDate |-> PubYear("2020"), ArticleDateYear |-> NoNode,
     ArticleIdPmc |-> Node(Some("PMC1"))],
    \* PubDate year, no PMC id
    [PMID |-> Node(Some(" 7 ")), PubDate |-> PubYear(" 2020\n"), ArticleDateYear |-> Node(Some("2019")),
     ArticleIdPmc |-> NoNode],
    \* PubDate without a Year, ArticleDate year, PMC id
    [PMID |-> Node(Some("8")), PubDate |-> PubNoYear, ArticleDateYear |-> Node(Some("2019")),
     ArticleIdPmc |-> Node(Some("PMC1"))],
    \* PubDate without a Year, no ArticleDate, empty PMC id node
    [PMID |-> Node(Some("9")), PubDate |-> PubNoYear, ArticleDateYear |-> NoNode,
     ArticleIdPmc |-> Node(None)],
    \* no PubDate element, ArticleDate year
    [PMID |-> Node(Some("10")), PubDate |-> None, ArticleDateYear |-> Node(Some("2019")),
     ArticleIdPmc |-> Node(Some("PMC1"))],
    \* no PubDate element, no ArticleDate
    [PMID |-> Node(Some("11")), PubDate |-> None, ArticleDateYear |-> NoNode,
     ArticleIdPmc |-> NoNode] }

\* what get_details_for_pmids and ET.fromstring make of one efetch call:
\* no data, text that is no XML, or a root with n PubmedArticle elements
DetailOutcomes ==
  { [kind |-> "error"], [kind |-> "empty_body"], [kind |-> "malformed"] }
  \cup { [kind |-> "xml", n |-> n] : n \in 0..MaxRecs }

\* ------------------------------------------------- /search handler
Idle == [endpoint |-> "none"]

Init ==
  /\ pc = "idle"
  /\ request = Idle
  /\ all_pmids = {}
  /\ pmid_list = <<>>
  /\ i = 0
  /\ article_xml = None
  /\ remaining = 0
  /\ article_details = None
  /\ articles_data = <<>>
  /\ calls = <<>>
  /\ outcomes = <<>>
  /\ chunk_failed = FALSE
  /\ response = None
  /\ article_texts = <<>>
  /\ full_prompt = ""
  /\ api_result = None

ReceiveSearch ==
  /\ pc = "idle"
  /\ \E r \in SearchRequests : request' = r
  /\ pc' = "search_pmids"
  /\ UNCHANGED <<all_pmids, pmid_list, i, article_xml, remaining, article_details,
                 articles_data, calls, outcomes, chunk_failed, response, gen_vars>>

\* pmid_list[k:k + size] with the last identifier left out
ChunkShort(list, k, size) == Slice(list, k, k + size - 1)

\* chunk = pmid_list[k:k + size]
Chunk(list, k, size) == Slice(list, k, k + size)

\* a loop that stays on the chunk it is at
NextOffsetSame(k, size) == k

\* range(0, len(pmid_list), chunk_size): the offset after k
NextOffset(k, size) == k + size

Reply(status, body) == Some([status |-> status, body |-> body])

\* raise HTTPException(status_code=status, detail=detail)
HTTPException(status, detail) == Reply(status, [detail |-> detail])

\* an exception no handler catches: the framework's 500 Internal Server Error
Unhandled(e) == Reply(500, [unhandled |-> e])

LeaveLoops ==
  /\ article_xml' = None
  /\ remaining' = 0
  /\ article_details' = None

\* return articles_data
ReturnArticles(arts) ==
  /\ pc' = "done"
  /\ response' = Reply(200, [articles |-> arts])
  /\ LeaveLoops

\* an exception leaves search_endpoint: the framework answers 500
Abort(e) ==
  /\ pc' = "done"
  /\ response' = Unhandled(e)
  /\ LeaveLoops

\* the for loop over the chunks moves on from offset i
NextChunk(arts, seen) ==
  IF NextOffset(i, request.chunk_size) < Len(pmid_list)
  THEN /\ i' = NextOffset(i, request.chunk_size)
       /\ pc' = "fetch"
       /\ LeaveLoops
       /\ outcomes' = <<>>
       /\ UNCHANGED response
  ELSE /\ i' = i
       /\ outcomes' = seen
       /\ ReturnArticles(arts)

\* the record kinds the parser body turns into an Article
ArticleKinds == {rec \in RecordKinds : parse_article_body(rec).tag = "Article"}

\* the environment's next record: the result list stays within MaxArticles
MayRead(rec, arts) == rec \in ArticleKinds => Len(arts) < MaxArticles

\* the for loop over root.findall('./PubmedArticle') takes its next element
ReadRecord(left, arts) ==
  /\ \E rec \in RecordKinds :
       /\ MayRead(rec, arts)
       /\ article_xml' = Some(rec)
  /\ remaining' = left - 1
  /\ pc' = "record"
  /\ article_details' = None

\* the inner loop moves on from article_xml
NextRecord(arts, seen) ==
  IF remaining > 0
  THEN /\ ReadRecord(remaining, arts)
       /\ outcomes' = seen
       /\ UNCHANGED <<i, response>>
  ELSE NextChunk(arts, seen)

SearchPmids ==
  /\ pc = "search_pmids"
  /\ \E o \in SearchOutcomes :
       /\ all_pmids' = search_pmids(o)
       /\ \E order \in Orderings(search_pmids(o)) :
            pmid_list' = SliceTo(order, request.limit)
  /\ calls' = Append(calls, [op |-> "esearch"])
  /\ IF pmid_list' = <<>>
     THEN /\ pc' = "done"
          /\ response' = Reply(200, [articles |-> <<>>])
     ELSE /\ pc' = "fetch"
          /\ UNCHANGED response
  /\ UNCHANGED <<request, i, article_xml, remaining, article_details, articles_data,
                 outcomes, chunk_failed, gen_vars>>

\* get_details_for_pmids(chunk), then ET.fromstring and the start of the
\* loop over the records
FetchChunk ==
  /\ pc = "fetch"
  /\ LET chunk == Chunk(pmid_list, i, request.chunk_size)
     IN IF chunk = <<>>
        THEN \* if not pmids: return None
             /\ chunk_failed' = TRUE
             /\ NextChunk(articles_data, <<>>)
             /\ UNCHANGED calls
        ELSE /\ calls' = Append(calls, [op |-> "efetch", ids |-> chunk])
             /\ \E o \in DetailOutcomes :
                  IF o.kind = "xml"
                  THEN /\ UNCHANGED chunk_failed
                       /\ IF o.n = 0
                          THEN NextChunk(articles_data, <<>>)
                          ELSE /\ ReadRecord(o.n, articles_data)
                               /\ outcomes' = <<>>
                               /\ UNCHANGED <<i, response>>
                  ELSE \* no data (continue) or ET.ParseError (logged)
                       /\ chunk_failed' = TRUE
                       /\ NextChunk(articles_data, <<>>)
  /\ UNCHANGED <<request, all_pmids, pmid_list, articles_data, gen_vars>>

\* a handler that scrapes whenever the record has a PMC id
ShouldScrapeAlways(req, art) == Truthy(art.pmcid)

\* if request.fetch_full_text and article_details.pmcid
ShouldScrape(req, art) == req.fetch_full_text /\ Truthy(art.pmcid)

ParseRecord ==
  /\ pc = "record"
  /\ LET r == parse_article_xml(article_xml[1])
     IN IF r.tag = "raise"
        THEN /\ Abort(r.exc)
             /\ UNCHANGED <<i, articles_data, outcomes>>
        ELSE IF r.tag = "None"
        THEN /\ NextRecord(articles_data, Append(outcomes, "None"))
             /\ UNCHANGED articles_data
        ELSE IF ShouldScrape(request, r.art)
        THEN /\ article_details' = Some(r.art)
             /\ pc' = "scrape"
             /\ outcomes' = Append(outcomes, "Article")
             /\ UNCHANGED <<i, article_xml, remaining, articles_data, response>>
        ELSE /\ articles_data' = Append(articles_data, r.art)
             /\ NextRecord(articles_data', Append(outcomes, "Article"))
  /\ UNCHANGED <<request, all_pmids, pmid_list, calls, chunk_failed, gen_vars>>

ScrapeFullText ==
  /\ pc = "scrape"
  /\ calls' = Append(calls, [op |-> "scrape", pmcid |-> article_details[1].pmcid[1]])
  /\ \E r \in ScrapeResults :
       IF r.tag = "raise"
       THEN /\ Abort(r.exc)
            /\ UNCHANGED <<i, articles_data, outcomes>>
       ELSE /\ articles_data' =
                 Append(articles_data, [article_details[1] EXCEPT !.full_text = r.v])
            /\ NextRecord(articles_data', outcomes)
  /\ UNCHANGED <<request, all_pmids, pmid_list, chunk_failed, gen_vars>>

\* ------------------------------------------------- generative API call
\* JSON values of a response body
JNull == [kind |-> "null"]
JNum == [kind |-> "num"]
JStr(t) == [kind |-> "str", v |-> t]
JList(items) == [kind |-> "list", items |-> items]
JDict(items) == [kind |-> "dict", items |-> items]

Key(k) == [key |-> k]
Index(n) == [idx |-> n]
IsKey(p) == "key" \in DOMAIN p

\* response.json()['candidates'][0]['content']['parts'][0]['text']
CompletionPath ==
  <<Key("candidates"), Index(0), Key("content"), Key("parts"), Index(0), Key("text")>>

\* v[p] of Python
Subscript(v, p) ==
  IF v.kind = "dict"
  THEN IF IsKey(p) /\ p.key \in DOMAIN v.items THEN Returned(v.items[p.key])
       ELSE Raised("KeyError")
  ELSE IF v.kind = "list"
  THEN IF IsKey(p) THEN Raised("TypeError")
       ELSE IF p.idx < Len(v.items) THEN Returned(v.items[p.idx + 1])
       ELSE Raised("IndexError")
  ELSE IF v.kind = "str"
  THEN IF IsKey(p) THEN Raised("TypeError")
       ELSE IF p.idx < Len(v.v) THEN Returned(JStr(SubSeq(v.v, p.idx + 1, p.idx + 1)))
       ELSE Raised("IndexError")
  ELSE Raised("TypeError")   \* None, a number

\* v[p1][p2]...
RECURSIVE Walk(_, _)
Walk(v, path) ==
  IF path = <<>> THEN Returned(v)
  ELSE LET r == Subscript(v, Head(path))
       IN IF r.tag = "raise" THEN r ELSE Walk(r.v, Tail(path))

\* the JSON value that holds leaf at the end of path
RECURSIVE Nest(_, _)
Nest(path, leaf) ==
  IF path = <<>> THEN leaf
  ELSE LET inner == Nest(Tail(path), leaf)
       IN IF IsKey(Head(path)) THEN JDict([k \in {Head(path).key} |-> inner])
          ELSE JList(<<inner>>)

Leaves ==
  { JNull, JNum, JStr(""), JStr("oops"), JList(<<>>), JList(<<JNum>>),
    JDict([k \in {} |-> JNull]), JDict([k \in {"error"} |-> JStr("quota")]) }

\* a body of the expected shape down to some depth, and then anything
JsonBodies ==
  { Nest(SubSeq(CompletionPath, 1, d), leaf) : d \in 0..Len(CompletionPath), leaf \in Leaves }
  \cup { Nest(CompletionPath, JStr(" (\"asthma\"[TIAB])\n")) }

\* outcome of the POST to the generative-language API
GeminiOutcomes ==
  { [kind |-> "exception", msg |-> "Read timed out."],
    [kind |-> "http_error", msg |-> "429 Client Error: Too Many Requests"],
    [kind |-> "not_json", raises |-> "RequestException", msg |-> "Expecting value"],
    [kind |-> "not_json", raises |-> "ValueError", msg |-> "Expecting value"] }
  \cup { [kind |-> "ok", body |-> b] : b \in JsonBodies }

\* requests.post, raise_for_status, response.json() and the subscripts: the
\* completion, or the exception raised in the try block.  response.json() of a
\* body that is no JSON raises a RequestException subclass or a plain
\* ValueError, by the version of requests installed.
Completion(o) ==
  IF o.kind \in {"exception", "http_error"} THEN [tag |-> "raise", exc |-> "RequestException", msg |-> o.msg]
  ELSE IF o.kind = "not_json" THEN [tag |-> "raise", exc |-> o.raises, msg |-> o.msg]
  ELSE Walk(o.body, CompletionPath)

\* except requests.exceptions.RequestException / except (KeyError, IndexError),
\* and whatever neither clause catches
GeminiFailure(r, invalid_detail) ==
  IF r.exc = "RequestException"
  THEN HTTPException(503, "Could not connect to the AI service: " \o r.msg)
  ELSE IF r.exc \in {"KeyError", "IndexError"}
  THEN HTTPException(500, invalid_detail)
  ELSE Unhandled(r.exc)

\* ------------------------------------------------- /generate-query handler
Ideas == {"asthma in children"}

GenerateRequests == [endpoint : {"generate-query"}, idea : Ideas]

QueryPrompt(idea) ==
  "Based on the user's research idea, create a concise and effective PubMed query. Instructions: 1. Identify key concepts. 2. Find synonyms. 3. Group with `OR` in parentheses, like `(concept[TIAB] OR synonym[TIAB])`. 4. Combine concepts with `AND`. 5. Confine search to title/abstract with `[TIAB]`. 6. Return ONLY the final query string. User's Idea: \""
  \o idea \o
  "\" Example Output: ((\"air pollution\"[TIAB]) AND (\"asthma\"[TIAB]) AND (\"child\"[TIAB]))"

ReceiveGenerate ==
  /\ pc = "idle"
  /\ \E r \in GenerateRequests :
       /\ request' = r
       /\ full_prompt' = QueryPrompt(r.idea)
  /\ pc' = "generate_call"
  /\ UNCHANGED <<calls, response, search_vars, article_texts, api_result>>

\* generate_query_endpoint from its POST on
GenerateQueryReply(o) ==
  LET r == Completion(o)
  IN IF r.tag = "raise"
     THEN GeminiFailure(r, "Received an invalid response from the AI service.")
     ELSE IF r.v.kind = "str" THEN Reply(200, [query |-> Strip(r.v.v)])
     ELSE Unhandled("AttributeError")   \* .strip() of a value that is no str

GenerateQueryCall ==
  /\ pc = "generate_call"
  /\ calls' = Append(calls, [op |-> "generateContent"])
  /\ \E o \in GeminiOutcomes :
       /\ api_result' = Some(o)
       /\ response' = GenerateQueryReply(o)
  /\ pc' = "done"
  /\ UNCHANGED <<request, search_vars, article_texts, full_prompt>>

\* ------------------------------------------------- /analyze handler
MaxArticleChars == 3000
MaxPromptChars == 30000

RECURSIVE Repeat(_, _)
Repeat(t, n) ==
  IF n = 0 THEN ""
  ELSE IF n % 2 = 1 THEN t \o Repeat(t, n - 1)
  ELSE LET half == Repeat(t, n \div 2) IN half \o half

LongText == Repeat("Lorem ", 500) \o "ipsum"

\* 'sub' in s
Contains(s, sub) ==
  \E k \in 1..(Len(s) - Len(sub) + 1) : SubSeq(s, k, k + Len(sub) - 1) = sub

\* the fields of an Article that analyze_endpoint reads
AnalyzedArticles ==
  [first_author : {"Jones, A."}, year : {"2021"}, abstract : {"An abstract."},
   full_text : {None, Some(""), Some("NOT_ATTEMPTED"), Some("FULL_TEXT_EMPTY"),
                Some("Intro. Body text"), Some("Scraping was NOT_ATTEMPTED here."),
                Some(LongText)}]
  \cup
  [first_author : {"NO_AUTHOR"}, year : {"NO_YEAR"}, abstract : {LongText},
   full_text : {Some("NOT_ATTEMPTED")}]

AnalysisRequests ==
  [endpoint : {"analyze"}, articles : SeqsUpTo(AnalyzedArticles, MaxAnalyzed)]

prompt_header ==
  "You are a research assistant. Synthesize research gaps from the provided articles into a concise list. For each gap, cite the source in parentheses (First Author, Year).\n\nExample:\n- The efficacy of treatment Y has not been tested in pediatric populations (Jones, 2021).\n\n--- START OF ARTICLES ---\n"

\* article.full_text if article.full_text and 'NOT_ATTEMPTED' not in article.full_text
\* else article.abstract
text_content(article) ==
  IF article.full_text # None /\ article.full_text[1] # ""
     /\ ~Contains(article.full_text[1], "NOT_ATTEMPTED")
  THEN article.full_text[1]
  ELSE article.abstract

\* f"ARTICLE {idx+1} {citation}:\n{text[:3000]}...\n"
ArticleBlock(n, article, text) ==
  "ARTICLE " \o ToString(n) \o " (" \o article.first_author \o ", " \o article.year
  \o "):\n" \o SliceTo(text, MaxArticleChars) \o "...\n"

\* "\n".join(blocks)
RECURSIVE JoinLines(_)
JoinLines(blocks) ==
  IF blocks = <<>> THEN ""
  ELSE IF Len(blocks) = 1 THEN blocks[1]
  ELSE blocks[1] \o "\n" \o JoinLines(Tail(blocks))

ReceiveAnalyze ==
  /\ pc = "idle"
  /\ \E r \in AnalysisRequests :
       /\ request' = r
       /\ article_texts' =
            [k \in 1..Len(r.articles) |-> ArticleBlock(k, r.articles[k], text_content(r.articles[k]))]
  /\ full_prompt' = SliceTo(prompt_header \o JoinLines(article_texts'), MaxPromptChars)
  /\ pc' = "analyze_call"
  /\ UNCHANGED <<calls, response, search_vars, api_result>>

\* analyze_endpoint from its POST on
AnalyzeReply(o) ==
  LET r == Completion(o)
  IN IF r.tag = "raise"
     THEN GeminiFailure(r, "Received an invalid response from the AI service during analysis.")
     ELSE Reply(200, [result |-> r.v])

AnalyzeCall ==
  /\ pc = "analyze_call"
  /\ calls' = Append(calls, [op |-> "generateContent"])
  /\ \E o \in GeminiOutcomes :
       /\ api_result' = Some(o)
       /\ response' = AnalyzeReply(o)
  /\ pc' = "done"
  /\ UNCHANGED <<request, search_vars, article_texts, full_prompt>>


Next ==
  \/ ReceiveSearch
  \/ SearchPmids
  \/ FetchChunk
  \/ ParseRecord
  \/ ScrapeFullText
  \/ ReceiveGenerate
  \/ GenerateQueryCall
  \/ ReceiveAnalyze
  \/ AnalyzeCall

Spec == Init /\ [][Next]_vars

\* ================================================================ claims
IsSearch == request.endpoint = "search"
Resp == response[1]
Returned200 == pc = "done" /\ Resp.status = 200

Efetches == SelectSeq(calls, LAMBDA c : c.op = "efetch")
Batches == [k \in 1..Len(Efetches) |-> Efetches[k].ids]

RECURSIVE Flatten(_)
Flatten(ss) == IF ss = <<>> THEN <<>> ELSE Head(ss) \o Flatten(Tail(ss))

\* ceil(n / size)
NumChunks == (Len(pmid_list) + request.chunk_size - 1) \div request.chunk_size

\* the scrape calls issued since the latest efetch call
RECURSIVE TrailingScrapes(_)
TrailingScrapes(cs) ==
  IF cs = <<>> \/ cs[Len(cs)].op # "scrape" THEN 0
  ELSE 1 + TrailingScrapes(SubSeq(cs, 1, Len(cs) - 1))

ParsedInChunk == Cardinality({k \in 1..Len(outcomes) : outcomes[k] = "Article"})

\* C1: when ID Search returned more identifiers than limit, the final list
\* of /search has at most limit Articles.
C1_ResultWithinLimit ==
  (IsSearch /\ Returned200 /\ Cardinality(all_pmids) > request.limit)
    => Len(Resp.body.articles) <= request.limit

\* C2: whatever its GET does, the scraper hands back a non-empty text,
\* FULL_TEXT_CONTAINER_NOT_FOUND, FULL_TEXT_EMPTY or a SCRAPING_FAILED: string,
\* which /search attaches to the record; no exception leaves it.
C2_ScraperAlwaysReturns ==
  [][(IsSearch /\ pc = "scrape") =>
       /\ ~(pc' = "done" /\ response'[1].status = 500)
       /\ articles_data' # articles_data
       /\ LET t == articles_data'[Len(articles_data')].full_text
          IN \/ t \in {"FULL_TEXT_CONTAINER_NOT_FOUND", "FULL_TEXT_EMPTY"}
             \/ StartsWith(t, "SCRAPING_FAILED:")
             \/ t # ""]_vars

\* C3: once a chunk gave no data or no parsable XML, every later chunk is
\* still fetched and the request ends with the list of the parsed records.
C3_LaterChunksStillProcessed ==
  (IsSearch /\ pc = "done" /\ chunk_failed) =>
    /\ Resp.status = 200
    /\ Len(Efetches) = NumChunks
    /\ Resp.body.articles = articles_data

HasIdentifier(el) == get_text(Some(el), "PMID") # ""

\* the year the record should get: PubDate year, else ArticleDate year, else NO_YEAR
ExpectedYear(el) ==
  LET pub == IF el.PubDate = None THEN "" ELSE get_text(el.PubDate, "Year")
      art == get_text(Some(el), "ArticleDateYear")
  IN IF pub # "" THEN pub ELSE IF art # "" THEN art ELSE "NO_YEAR"

\* C4: a record with an identifier becomes an Article whose year is the
\* PubDate year, else the ArticleDate year, else NO_YEAR.
C4_YearFallback ==
  [][(IsSearch /\ pc = "record" /\ HasIdentifier(article_xml[1])) =>
       LET y == ExpectedYear(article_xml[1])
       IN \/ pc' = "scrape" /\ article_details'[1].year = y
          \/ /\ Len(articles_data') = Len(articles_data) + 1
             /\ articles_data'[Len(articles_data')].year = y]_vars

\* C5: with fetch_full_text false no scrape call is ever issued; with it true
\* the scraper is called only for records with a non-empty pmcid.
C5_ScrapeOnlyWhenAsked ==
  IsSearch =>
    /\ ~request.fetch_full_text =>
         (pc # "scrape" /\ \A k \in 1..Len(calls) : calls[k].op # "scrape")
    /\ \A k \in 1..Len(calls) : calls[k].op = "scrape" => calls[k].pmcid # ""
    /\ pc = "scrape" => Truthy(article_details[1].pmcid)

\* a request without full-text fetching returned a record that carries a pmcid
C5_Witness ==
  /\ IsSearch /\ Returned200 /\ ~request.fetch_full_text
  /\ \E k \in 1..Len(articles_data) :
       Truthy(articles_data[k].pmcid) /\ articles_data[k].full_text = "NOT_ATTEMPTED"

\* C6: the parser never raises (a record without identifier or one whose
\* parsing fails gives no record), and a record that gives no record leaves
\* the result as it is and lets the loop go on to the next record of the chunk.
C6_ParserNeverRaises ==
  [][(IsSearch /\ pc = "record") =>
       LET b == parse_article_body(article_xml[1])
       IN /\ parse_article_xml(article_xml[1]).tag \in {"None", "Article"}
          /\ ~(pc' = "done" /\ response'[1].status = 500)
          /\ b.tag # "Article" =>
               /\ articles_data' = articles_data
               /\ remaining > 0 => (pc' = "record" /\ remaining' = remaining - 1)
          /\ b.tag = "Article" =>
               \/ pc' = "scrape" /\ article_details' = Some(b.art)
               \/ articles_data' = Append(articles_data, b.art)]_vars

\* a record was appended after an earlier record of its chunk gave no record
C6_Witness ==
  /\ IsSearch /\ Returned200
  /\ articles_data # <<>>
  /\ \E k, m \in 1..Len(outcomes) : k < m /\ outcomes[k] = "None" /\ outcomes[m] = "Article"

\* the text the prompt should show for an article
BestAvailableText(article) ==
  IF article.full_text \in {None, Some(""), Some("NOT_ATTEMPTED"), Some("FULL_TEXT_EMPTY")}
  THEN article.abstract
  ELSE article.full_text[1]

\* C7: each article is rendered from the first 3000 characters of its full
\* text when that was attempted and is non-empty, and of its abstract when
\* full_text is NOT_ATTEMPTED, empty or FULL_TEXT_EMPTY.
C7_RenderedFromBestText ==
  (request.endpoint = "analyze" /\ pc \in {"analyze_call", "done"}) =>
    \A k \in 1..Len(request.articles) :
      article_texts[k] =
        ArticleBlock(k, request.articles[k], BestAvailableText(request.articles[k]))

InvalidDetail ==
  IF request.endpoint = "analyze"
  THEN "Received an invalid response from the AI service during analysis."
  ELSE "Received an invalid response from the AI service."

\* C8: a transport or HTTP error gives 503 with the upstream message, a body
\* of a missing or malformed shape gives 500 with the invalid-response
\* message, and a body with a completion text gives 200 with that text.
C8_UpstreamOutcomeMapping ==
  (request.endpoint \in {"generate-query", "analyze"} /\ pc = "done") =>
    LET o == api_result[1]
    IN /\ o.kind \in {"exception", "http_error"} =>
            /\ Resp.status = 503
            /\ "detail" \in DOMAIN Resp.body
            /\ Contains(Resp.body.detail, o.msg)
       /\ o.kind = "ok" =>
            LET w == Walk(o.body, CompletionPath)
            IN /\ w.tag = "raise" =>
                    (Resp.status = 500 /\ Resp.body = [detail |-> InvalidDetail])
               /\ (w.tag = "return" /\ w.v.kind = "str") =>
                    /\ Resp.status = 200
                    /\ Resp.body = IF request.endpoint = "analyze"
                                   THEN [result |-> w.v]
                                   ELSE [query |-> Strip(w.v.v)]

C9_Shape ==
  IsSearch =>
    /\ pc = "search_pmids" => calls = <<>>
    /\ pc # "search_pmids" =>
         LET fetched == Len(Efetches)
             size == request.chunk_size
         IN /\ calls # <<>>
            /\ calls[1].op = "esearch"
            /\ \A k \in 2..Len(calls) : calls[k].op \in {"efetch", "scrape"}
            /\ pmid_list = <<>> => Len(calls) = 1
            /\ pmid_list # <<>> =>
                 /\ fetched = (i \div size) + (IF pc = "fetch" THEN 0 ELSE 1)
                 /\ LET sent == Efetches
                    IN \A k \in 1..fetched :
                         Head(sent[k].ids) = pmid_list[(k - 1) * size + 1]
                 /\ pc # "fetch" => TrailingScrapes(calls) <= ParsedInChunk
                 /\ Returned200 => fetched = NumChunks

C9_AppendOnly ==
  \/ calls' = calls
  \/ /\ Len(calls') = Len(calls) + 1
     /\ SubSeq(calls', 1, Len(calls)) = calls

====
